---- MODULE Spec2Model ----
(***************************************************************************)
(* Forward-Euler trajectory generation of src/main.rs: create_dataset,     *)
(* EndCondition::has_reached, is_degenerate, and the parallel map/collect  *)
(* of main.                                                                *)
(*                                                                         *)
(* f64 is modelled by a binary floating-point format of the same shape     *)
(* with a narrow significand and exponent: Prec significand bits, largest  *)
(* exponent EMax, round-to-nearest-even, overflow to infinity, NaN.  The   *)
(* unit in the last place of the smallest binade is 1, so every value is   *)
(* an integer and integers up to 2^Prec are exact (as integers up to 2^53  *)
(* are in f64).                                                            *)
(***************************************************************************)
EXTENDS Integers, Sequences, FiniteSets, TLC

\* ---------------------------------------------------------------- bounds
Prec == 3
EMax == 2
MaxPoints == 7
MaxN == 2

\* ----------------------------------------------------------------- f64
RECURSIVE Pow2(_)
Pow2(n) == IF n = 0 THEN 1 ELSE 2 * Pow2(n - 1)

TwoP == Pow2(Prec)
MaxFinite == (TwoP - 1) * Pow2(EMax)
PosInf == 2 * MaxFinite
NegInf == 0 - PosInf
NaN == PosInf + 1
None == PosInf + 2

IAbs(n) == IF n < 0 THEN 0 - n ELSE n

\* spacing of the representable values in the binade holding magnitude m
RECURSIVE Quantum(_)
Quantum(m) == IF m < TwoP THEN 1 ELSE 2 * Quantum(m \div 2)

\* round-to-nearest, ties to even significand (magnitude)
RoundMag(m) ==
    LET q == Quantum(m)
        lo == (m \div q) * q
        r == m - lo
    IN  IF 2 * r < q THEN lo
        ELSE IF 2 * r > q THEN lo + q
        ELSE IF (lo \div q) % 2 = 0 THEN lo ELSE lo + q

\* the f64 nearest to the exact integer n; overflow gives an infinity
Round(n) ==
    LET r == RoundMag(IAbs(n))
    IN  IF r > MaxFinite THEN (IF n < 0 THEN NegInf ELSE PosInf)
        ELSE IF n < 0 THEN 0 - r ELSE r

Finite == {v \in (0 - MaxFinite)..MaxFinite : Round(v) = v}
Floats == Finite \cup {PosInf, NegInf, NaN}

IsInf(a) == a = PosInf \/ a = NegInf

\* f64 addition
FAddOf(a, b) ==
    IF a = NaN \/ b = NaN THEN NaN
    ELSE IF IsInf(a) /\ IsInf(b) THEN (IF a = b THEN a ELSE NaN)
    ELSE IF IsInf(a) THEN a
    ELSE IF IsInf(b) THEN b
    ELSE Round(a + b)

\* f64 multiplication
FMulOf(a, b) ==
    IF a = NaN \/ b = NaN THEN NaN
    ELSE IF IsInf(a) \/ IsInf(b)
         THEN (IF a = 0 \/ b = 0 THEN NaN
               ELSE IF (a > 0) = (b > 0) THEN PosInf ELSE NegInf)
    ELSE Round(a * b)

\* the two operations, tabulated over the values of the format
FAddTable == [a \in Floats |-> [b \in Floats |-> FAddOf(a, b)]]
FMulTable == [a \in Floats |-> [b \in Floats |-> FMulOf(a, b)]]

FAdd(a, b) == FAddTable[a][b]
FMul(a, b) == FMulTable[a][b]

\* f64::abs
FAbs(a) == IF a = NaN THEN NaN ELSE IF a < 0 THEN 0 - a ELSE a

\* f64 comparison `>`: false when either side is NaN
FGt(a, b) == a # NaN /\ b # NaN /\ a > b

\* f64::cbrt, rounded to the nearest representable value
CbrtMag(m) ==
    LET lo == CHOOSE r \in 0..m : r * r * r <= m /\ m < (r + 1) * (r + 1) * (r + 1)
    IN  IF 8 * m < (2 * lo + 1) * (2 * lo + 1) * (2 * lo + 1) THEN lo ELSE lo + 1

Cbrt(a) ==
    IF a = NaN \/ IsInf(a) THEN a
    ELSE IF a < 0 THEN 0 - Round(CbrtMag(0 - a)) ELSE Round(CbrtMag(a))

\* ------------------------------------------------------ src/main.rs
\* fn derivative_y(x, y) = y.cbrt() + x
derivative_y(x, y) == FAdd(Cbrt(y), x)

\* the `impl Fn(f64, f64) -> f64` parameter of create_dataset: the function
\* main passes, and other callers' functions
Derivs == {"derivative_y", "zero", "one", "y", "neg_y", "inf"}

Apply(f, x, y) ==
    CASE f = "derivative_y" -> derivative_y(x, y)
      [] f = "zero" -> 0
      [] f = "one" -> 1
      [] f = "y" -> y
      [] f = "neg_y" -> FMul(0 - 2, y)
      [] f = "inf" -> PosInf

\* struct Point { x, y }
Point(x, y) == [x |-> x, y |-> y]

IsDegenerateNoInf(x) == x = NaN

\* fn is_degenerate: classify() is Nan or Infinite
is_degenerate(x) ==
    IF x = NaN THEN TRUE
    ELSE IF IsInf(x) THEN TRUE
    ELSE FALSE

\* struct EndCondition { max_x: Option<f64>, max_abs_y: Option<f64> }
EndCondition(mx, my) == [max_x |-> mx, max_abs_y |-> my]

\* self.max_x.map_or(false, |max_x| current.x > max_x)
OverX(ec, cur) == IF ec.max_x = None THEN FALSE ELSE FGt(cur.x, ec.max_x)

\* self.max_abs_y.map_or(false, |max_y| current.y.abs() > max_y)
OverY(ec, cur) ==
    IF ec.max_abs_y = None THEN FALSE ELSE FGt(FAbs(cur.y), ec.max_abs_y)

HasReachedNoY(ec, cur) == OverX(ec, cur)

HasReachedBoth(ec, cur) == OverX(ec, cur) /\ OverY(ec, cur)

HasReachedInclusive(ec, cur) ==
    \/ ec.max_x # None /\ cur.x # NaN /\ ec.max_x # NaN /\ cur.x >= ec.max_x
    \/ ec.max_abs_y # None /\ cur.y # NaN /\ ec.max_abs_y # NaN
          /\ FAbs(cur.y) >= ec.max_abs_y

\* EndCondition::has_reached
has_reached(ec, cur) ==
    IF OverX(ec, cur) THEN TRUE
    ELSE IF OverY(ec, cur) THEN TRUE
    ELSE FALSE

LoopCondYOnly(ec, cur) ==
    /\ ~has_reached(ec, cur)
    /\ ~is_degenerate(cur.y)

\* the `while` condition of create_dataset
LoopCond(ec, cur) ==
    /\ ~has_reached(ec, cur)
    /\ ~is_degenerate(cur.x)
    /\ ~is_degenerate(cur.y)

AdvanceXFirst(cur, step, f) ==
    LET nx == FAdd(cur.x, step)
    IN  Point(nx, FAdd(cur.y, FMul(Apply(f, nx, cur.y), step)))

AdvanceNoX(cur, step, f) ==
    Point(cur.x, FAdd(cur.y, FMul(Apply(f, cur.x, cur.y), step)))

\* the two updates of the loop body: current.y += derivative_y(current.x,
\* current.y) * step_size; then current.x += step_size
Advance(cur, step, f) ==
    LET ny == FAdd(cur.y, FMul(Apply(f, cur.x, cur.y), step))
    IN  Point(FAdd(cur.x, step), ny)

\* create_dataset as a function: the points pushed from `cur` on, after pts
\* (at most MaxPoints of them)
RECURSIVE create_dataset(_, _, _, _, _)
create_dataset(cur, step, ec, f, pts) ==
    IF LoopCond(ec, cur) /\ Len(pts) < MaxPoints
    THEN create_dataset(Advance(cur, step, f), step, ec, f,
                        Append(pts, <<cur.x, cur.y>>))
    ELSE pts

\* ------------------------------------------------------------- state
VARIABLES
    num_datasets,   \* number of trajectories
    step_size,      \* delta
    end_condition,  \* the EndCondition every call gets
    deriv,          \* the derivative function passed
    start,          \* start[i]: the start Point of call i
    current,        \* current[i]: the loop's `current` of call i
    points,         \* points[i]: the loop's `points` of call i
    pc,             \* pc[i]: "loop" | "done"
    datasets,       \* the collected Vec: datasets[k] for position k
    written,        \* written[k]: how many results were put at position k
    arrived,        \* number of calls that have returned
    dropped,        \* dropped[i]: pushes beyond the MaxPoints kept: 0, else 1 (odd) or 2 (even)
    start_x,        \* main's start_x
    y_spread,       \* main's y_spread
    mainpc          \* "call" (create_dataset alone) | "map" | "plot" | "panic"

vars == <<num_datasets, step_size, end_condition, deriv, start, current,
          points, pc, datasets, written, arrived, dropped, start_x,
          y_spread, mainpc>>

Idx == 0..(num_datasets - 1)

\* --------------------------------------------------------- inputs
StartXs == {0 - TwoP, 0, 3, TwoP, NaN}
StartYs == {0 - 3, 0, 1, 5, PosInf, NaN}
Steps == {0 - 1, 0, 1, 2, NaN}
MaxXs == {None, 3, TwoP + 2, NaN}
MaxYs == {None, 5, 3 * Pow2(EMax)}

InitCalls(n, st) ==
    /\ num_datasets = n
    /\ start = st
    /\ current = st
    /\ points = [i \in 0..(n - 1) |-> <<>>]
    /\ pc = [i \in 0..(n - 1) |-> "loop"]
    /\ datasets = [i \in 0..(n - 1) |-> <<>>]
    /\ written = [i \in 0..(n - 1) |-> 0]
    /\ dropped = [i \in 0..(n - 1) |-> 0]
    /\ arrived = 0

\* one call of create_dataset, its arguments drawn from the given sets
InitCall(sxs, sys, steps, mxs, mys, fs) ==
    /\ step_size \in steps
    /\ end_condition \in {EndCondition(mx, my) : mx \in mxs, my \in mys}
    /\ deriv \in fs
    /\ \E sx \in sxs, sy \in sys :
          /\ InitCalls(1, [i \in 0..0 |-> Point(sx, sy)])
          /\ start_x = sx
    /\ y_spread = 0
    /\ mainpc = "call"

\* one call of create_dataset with any arguments
Init == InitCall(StartXs, StartYs, Steps, MaxXs, MaxYs, Derivs)

SlotByArrival(i, n) == n

\* collect() of an indexed parallel iterator: the result of item i goes to
\* position i, whatever the order the items finish in
Slot(i, n) == i

\* one iteration of the while loop of call i
Step(i) ==
    /\ pc[i] = "loop"
    /\ LoopCond(end_condition, current[i])
    /\ Len(points[i]) < MaxPoints
    /\ points' = [points EXCEPT ![i] = Append(@, <<current[i].x, current[i].y>>)]
    /\ current' = [current EXCEPT ![i] = Advance(@, step_size, deriv)]
    /\ UNCHANGED <<num_datasets, step_size, end_condition, deriv, start, pc,
                   datasets, written, arrived, dropped, start_x,
                   y_spread, mainpc>>

\* the while condition is false: call i returns `points`, which is collected
Exit(i) ==
    /\ pc[i] = "loop"
    /\ ~LoopCond(end_condition, current[i])
    /\ pc' = [pc EXCEPT ![i] = "done"]
    /\ datasets' = [datasets EXCEPT ![Slot(i, arrived)] = points[i]]
    /\ written' = [written EXCEPT ![Slot(i, arrived)] = @ + 1]
    /\ arrived' = arrived + 1
    /\ UNCHANGED <<num_datasets, step_size, end_condition, deriv, start,
                   current, points, dropped, start_x,
                   y_spread, mainpc>>

Next ==
    \/ \E i \in Idx : Step(i)
    \/ \E i \in Idx : Exit(i)

Spec == Init /\ [][Next]_vars

\* ------------------------------------------------------------- main
Spreads == {0, 1, 3}
MainMaxXs == {3, TwoP + 2}
MainMaxYs == {5, 3 * Pow2(EMax)}

\* main, with its constants (delta, start_x, y_spread, num_datasets and the
\* two bounds) drawn from small sets: call i starts at
\* (start_x, 0.0 + i as f64 * y_spread) and gets derivative_y
MainInit ==
    /\ step_size \in Steps
    /\ end_condition \in {EndCondition(mx, my) : mx \in MainMaxXs, my \in MainMaxYs}
    /\ deriv = "derivative_y"
    /\ start_x \in {0, 3}
    /\ y_spread \in Spreads
    /\ \E n \in 0..MaxN :
          InitCalls(n, [i \in 0..(n - 1) |->
                          Point(start_x, FAdd(0, FMul(Round(i), y_spread)))])
    /\ mainpc = "map"

\* after collect(): the reduce(f64::max).unwrap() over all points panics
\* when there is no point at all; otherwise the chart is drawn
Reduce ==
    /\ mainpc = "map"
    /\ \A i \in Idx : pc[i] = "done"
    /\ mainpc' = IF \A k \in Idx : datasets[k] = <<>> THEN "panic" ELSE "plot"
    /\ UNCHANGED <<num_datasets, step_size, end_condition, deriv, start,
                   current, points, pc, datasets, written, arrived, dropped,
                   start_x, y_spread>>

MainNext ==
    \/ \E i \in Idx : Step(i)
    \/ \E i \in Idx : Exit(i)
    \/ Reduce

MainSpec == MainInit /\ [][MainNext]_vars

\* ------------------------------------------------- the loop, unbounded
\* an iteration of the while loop once MaxPoints points are kept: the push
\* is not kept (the loop condition and the updates do not read `points`)
StepFull(i) ==
    /\ pc[i] = "loop"
    /\ LoopCond(end_condition, current[i])
    /\ Len(points[i]) >= MaxPoints
    /\ current' = [current EXCEPT ![i] = Advance(@, step_size, deriv)]
    /\ dropped' = [dropped EXCEPT ![i] = IF @ = 1 THEN 2 ELSE 1]
    /\ UNCHANGED <<num_datasets, step_size, end_condition, deriv, start,
                   points, pc, datasets, written, arrived, start_x, y_spread,
                   mainpc>>

LiveNext ==
    \/ \E i \in Idx : Step(i)
    \/ \E i \in Idx : StepFull(i)
    \/ \E i \in Idx : Exit(i)

LiveInit ==
    InitCall({0, TwoP}, {0, 1}, {1, 2}, {None, 3, TwoP + 2}, {None, 5},
             {"derivative_y", "zero", "one", "y"})

\* the thread running the loop keeps running: weak fairness of its steps
LiveSpec == LiveInit /\ [][LiveNext]_vars /\ WF_vars(LiveNext)

\* ------------------------------------------------------------ claims
\* what the claims mean by a NaN or infinite coordinate
Degenerate(v) == v = NaN \/ v = PosInf \/ v = NegInf

\* what the claims mean by has_reached of the point (x, y)
Beyond(x, y) ==
    \/ end_condition.max_x # None /\ FGt(x, end_condition.max_x)
    \/ end_condition.max_abs_y # None /\ FGt(FAbs(y), end_condition.max_abs_y)

X(i, k) == points[i][k][1]
Y(i, k) == points[i][k][2]

\* C1: every point pushed to `points` is within the bounds when pushed: no
\* recorded point has x > max_x (when set) or |y| > max_abs_y (when set).
C1_RecordedWithinBounds ==
    \A i \in Idx : \A k \in 1..Len(points[i]) : ~Beyond(X(i, k), Y(i, k))

C1_Witness ==
    \E i \in Idx :
        /\ pc[i] = "done"
        /\ Len(points[i]) >= 2
        /\ end_condition.max_abs_y # None
        /\ FGt(FAbs(current[i].y), end_condition.max_abs_y)

\* C2: no recorded point has a NaN or infinite coordinate, also when the value
\* comes from the derivative function or from overflow of the update.
C2_RecordedFinite ==
    \A i \in Idx : \A k \in 1..Len(points[i]) :
        ~Degenerate(X(i, k)) /\ ~Degenerate(Y(i, k))

C2_Witness ==
    \E i \in Idx :
        /\ pc[i] = "done"
        /\ Len(points[i]) >= 2
        /\ deriv # "inf"
        /\ ~Beyond(current[i].x, current[i].y)
        /\ Degenerate(current[i].y)

\* C3 (as claimed): in a returned trajectory the x-coordinates start at
\* start.x and each exceeds its predecessor by exactly the step size (for
\* the positive step size the integrator's contract asks for).
C3_StrictArithmetic ==
    \A i \in Idx : (pc[i] = "done" /\ FGt(step_size, 0)) =>
        /\ Len(points[i]) >= 1 => X(i, 1) = start[i].x
        /\ \A k \in 1..(Len(points[i]) - 1) :
              /\ X(i, k + 1) = X(i, k) + step_size
              /\ X(i, k + 1) > X(i, k)

\* C3 (amended): the x-coordinates start at start.x and each is the f64 sum
\* of its predecessor and the step size; for a positive step they never
\* decrease, and they increase by exactly the step size wherever the exact
\* sum is representable.
C3_RoundedArithmetic ==
    \A i \in Idx :
        /\ Len(points[i]) >= 1 => X(i, 1) = start[i].x
        /\ \A k \in 1..(Len(points[i]) - 1) :
              /\ X(i, k + 1) = FAdd(X(i, k), step_size)
              /\ FGt(step_size, 0) => X(i, k + 1) >= X(i, k)
              /\ (~Degenerate(step_size) /\ X(i, k) + step_size \in Finite)
                    => X(i, k + 1) = X(i, k) + step_size

C3_Witness ==
    \E i \in Idx :
        /\ pc[i] = "done"
        /\ FGt(step_size, 0)
        /\ Len(points[i]) >= 3
        /\ X(i, 2) > X(i, 1)
        /\ X(i, Len(points[i])) = X(i, Len(points[i]) - 1)

\* C4: the returned trajectory is empty exactly when the start Point is
\* beyond a bound or has a NaN or infinite coordinate; otherwise its first
\* point is the start Point.
C4_EmptyIffStartStops ==
    \A i \in Idx : pc[i] = "done" =>
        LET stops == \/ Beyond(start[i].x, start[i].y)
                     \/ Degenerate(start[i].x)
                     \/ Degenerate(start[i].y)
        IN  /\ (datasets[i] = <<>>) <=> stops
            /\ ~stops => datasets[i][1] = <<start[i].x, start[i].y>>

C4_Witness ==
    /\ \E i \in Idx : pc[i] = "done" /\ datasets[i] = <<>>
                      /\ start[i].x = NaN /\ ~Degenerate(start[i].y)
                      /\ ~Beyond(start[i].x, start[i].y)

\* C5: for a positive step size the stepping loop always halts.
C5_Halts == FGt(step_size, 0) => <>(\A i \in Idx : pc[i] = "done")

\* C6: after the parallel map and collect, position i holds the trajectory
\* integrated from (start_x, i * y_spread), each position was written exactly
\* once, and the result equals the sequential one, whatever the interleaving.
C6_CollectedByIndex ==
    /\ \A k \in Idx : written[k] <= 1
    /\ (\A i \in Idx : pc[i] = "done") =>
          \A k \in Idx :
              /\ written[k] = 1
              /\ datasets[k] =
                    create_dataset(Point(start_x, FAdd(0, FMul(Round(k), y_spread))),
                                   step_size, end_condition, deriv, <<>>)

C6_Witness ==
    /\ num_datasets >= 2
    /\ \A i \in Idx : pc[i] = "done"
    /\ Len(datasets[0]) >= 2
    /\ Len(datasets[1]) >= 2
    /\ datasets[0] # datasets[1]
    /\ mainpc = "plot"

\* C7: with a non-positive step size or a non-positive trajectory count no
\* stepping-loop iteration is executed and no trajectory point is produced.
C7_InvalidConfigRejected ==
    (~FGt(step_size, 0) \/ num_datasets <= 0) =>
        \A i \in Idx : points[i] = <<>> /\ current[i] = start[i]

\* C8: for a non-empty returned trajectory the last point is within the
\* bounds and its forward-Euler successor is beyond a bound or has a NaN or
\* infinite coordinate.
C8_Maximal ==
    \A i \in Idx : (pc[i] = "done" /\ datasets[i] # <<>>) =>
        LET last == datasets[i][Len(datasets[i])]
            nx == FAdd(last[1], step_size)
            ny == FAdd(last[2], FMul(Apply(deriv, last[1], last[2]), step_size))
        IN  /\ ~Beyond(last[1], last[2])
            /\ Beyond(nx, ny) \/ Degenerate(nx) \/ Degenerate(ny)

C8_Witness ==
    \E i \in Idx :
        /\ pc[i] = "done"
        /\ Len(datasets[i]) >= 2
        /\ end_condition.max_abs_y # None
        /\ LET last == datasets[i][Len(datasets[i])]
           IN  /\ FAbs(last[2]) = end_condition.max_abs_y
               /\ FGt(FAbs(current[i].y), end_condition.max_abs_y)

\* C9: has_reached is true exactly when x > max_x or |y| > max_abs_y for a
\* bound that is set, strictly: the loop stops only at a point strictly
\* beyond a bound (or degenerate), a point on a bound is recorded, and with
\* no bound set has_reached is false.
C9_StrictBounds ==
    \A i \in Idx :
        /\ has_reached(end_condition, current[i])
              <=> Beyond(current[i].x, current[i].y)
        /\ (end_condition.max_x = None /\ end_condition.max_abs_y = None)
              => ~has_reached(end_condition, current[i])
        /\ (pc[i] = "done") =>
              \/ Beyond(current[i].x, current[i].y)
              \/ Degenerate(current[i].x)
              \/ Degenerate(current[i].y)

C9_Witness ==
    \E i \in Idx :
        /\ pc[i] = "done"
        /\ Len(points[i]) >= 2
        /\ X(i, Len(points[i])) = end_condition.max_x
        /\ FGt(current[i].x, end_condition.max_x)

\* C10: consecutive recorded points satisfy the forward-Euler relation
\* y[k+1] = y[k] + derivative(x[k], y[k]) * step, the derivative taken at the
\* recorded point's own x and y.
C10_EulerRelation ==
    \A i \in Idx : \A k \in 1..(Len(points[i]) - 1) :
        Y(i, k + 1) =
            FAdd(Y(i, k), FMul(Apply(deriv, X(i, k), Y(i, k)), step_size))

C10_Witness ==
    \E i \in Idx :
        /\ deriv = "derivative_y"
        /\ Len(points[i]) >= 3
        /\ X(i, 3) # X(i, 2)
        /\ Y(i, 3) # FAdd(Y(i, 2), FMul(Apply(deriv, X(i, 3), Y(i, 2)), step_size))

====
